---- MODULE Spec2Model ----
(***************************************************************************)
(* Model of the simulation kernel of ArielHorwitz/space: the flight        *)
(* planner (Ship._simple_flight_plan), the ship order callbacks            *)
(* (Ship.fly_to, fly_cruise_cutoff, fly_break_burn, fly_end, engine_burn), *)
(* the fleet command layer (Admiral / Player.order_ship) and the event     *)
(* scheduler the ships register their callbacks with.                      *)
(*                                                                         *)
(* Numbers.  The planner works on Python floats.  They are modelled as     *)
(* exact rationals (numerator, denominator, sign) over arbitrary           *)
(* precision naturals (sequences of base-Base limbs, least significant     *)
(* first), so that the repeated "cruise_speed *= 0.95" and the floor       *)
(* division "//" are computed exactly as written.  Vectors are modelled    *)
(* along one axis: a vector is an integer, its norm its absolute value.    *)
(***************************************************************************)
EXTENDS Integers, Sequences, FiniteSets, TLC

\* ------------------------------------------------------------------------
\* Arbitrary precision naturals
\* ------------------------------------------------------------------------
Base == 10000

\* a without its leading (most significant) zero limbs
RECURSIVE BNorm(_)
BNorm(a) ==
    IF a = <<>> THEN <<>>
    ELSE IF a[Len(a)] = 0 THEN BNorm(SubSeq(a, 1, Len(a) - 1))
    ELSE a

RECURSIVE BFromInt(_)
BFromInt(n) ==
    IF n = 0 THEN <<>> ELSE <<n % Base>> \o BFromInt(n \div Base)

BLimb(a, i) == IF i <= Len(a) THEN a[i] ELSE 0

RECURSIVE BAddC(_, _, _, _)
BAddC(a, b, i, c) ==
    IF i > Len(a) /\ i > Len(b)
    THEN IF c = 0 THEN <<>> ELSE <<c>>
    ELSE LET s == BLimb(a, i) + BLimb(b, i) + c
         IN  <<s % Base>> \o BAddC(a, b, i + 1, s \div Base)

BAdd(a, b) == BAddC(a, b, 1, 0)

RECURSIVE BSubC(_, _, _, _)
BSubC(a, b, i, c) ==
    IF i > Len(a) THEN <<>>
    ELSE LET s == a[i] - BLimb(b, i) - c
         IN  <<IF s < 0 THEN s + Base ELSE s>>
             \o BSubC(a, b, i + 1, IF s < 0 THEN 1 ELSE 0)

\* a - b for a >= b
BSub(a, b) == BNorm(BSubC(a, b, 1, 0))

BShiftBy(a, k) == IF a = <<>> THEN <<>> ELSE [i \in 1..k |-> 0] \o a

\* a * m for one limb m: the low and the high halves of the limb products
BMulLimb(a, m) ==
    BAdd(BNorm([i \in 1..Len(a) |-> (a[i] * m) % Base]),
         BShiftBy(BNorm([i \in 1..Len(a) |-> (a[i] * m) \div Base]), 1))

\* a * b[lo..hi], by halves
RECURSIVE BMulRange(_, _, _, _)
BMulRange(a, b, lo, hi) ==
    IF lo = hi THEN BMulLimb(a, b[lo])
    ELSE LET mid == (lo + hi) \div 2
         IN  BAdd(BMulRange(a, b, lo, mid),
                  BShiftBy(BMulRange(a, b, mid + 1, hi), mid + 1 - lo))

BMul(a, b) ==
    IF a = <<>> \/ b = <<>> THEN <<>>
    ELSE IF b = <<1>> THEN a
    ELSE IF a = <<1>> THEN b
    ELSE BMulRange(IF Len(a) < Len(b) THEN b ELSE a,
                   IF Len(a) < Len(b) THEN a ELSE b,
                   1, IF Len(a) < Len(b) THEN Len(a) ELSE Len(b))

\* -1, 0, 1 as a < b, a = b, a > b  (a, b without leading zeros)
BCmp(a, b) ==
    IF Len(a) < Len(b) THEN -1
    ELSE IF Len(a) > Len(b) THEN 1
    ELSE LET df == {i \in 1..Len(a) : a[i] # b[i]}
         IN  IF df = {} THEN 0
             ELSE LET top == CHOOSE i \in df : \A j \in df : j <= i
                  IN  IF a[top] < b[top] THEN -1 ELSE 1

BLeq(a, b) == BCmp(a, b) <= 0
BLess(a, b) == BCmp(a, b) < 0

\* the largest q in lo..hi with b*q <= r  (b*lo <= r is given)
RECURSIVE BDigit(_, _, _, _)
BDigit(r, b, lo, hi) ==
    IF lo = hi THEN lo
    ELSE LET mid == (lo + hi + 1) \div 2
         IN  IF BLeq(BMulLimb(b, mid), r)
             THEN BDigit(r, b, mid, hi)
             ELSE BDigit(r, b, lo, mid - 1)

\* long division from the most significant limb a[i] down, rem the
\* remainder and quo the quotient limbs so far: <<quotient, remainder>>
RECURSIVE BDivStep(_, _, _, _, _)
\* the limb q of the quotient is known: on to the next limb
BDivNext(a, b, i, r, q, quo) ==
    BDivStep(a, b, i - 1, IF q = 0 THEN r ELSE BSub(r, BMulLimb(b, q)),
             <<q>> \o quo)

\* r, the remainder with the limb a[i] brought down, is known
BDivLimb(a, b, i, r, quo) ==
    BDivNext(a, b, i, r, IF BLess(r, b) THEN 0 ELSE BDigit(r, b, 1, Base - 1),
             quo)

BDivStep(a, b, i, rem, quo) ==
    IF i = 0 THEN << BNorm(quo), rem >>
    ELSE BDivLimb(a, b, i, BNorm(<<a[i]>> \o rem), quo)

BDivMod(a, b) == BDivStep(a, b, Len(a), <<>>, <<>>)

BDiv(a, b) == BDivMod(a, b)[1]

\* ------------------------------------------------------------------------
\* Rationals <<n, d, s>>: the magnitude n / d (d > 0) and the sign s, which
\* is 1 or -1, and 1 for zero.  They are not kept in lowest terms: two
\* rationals are compared with RCmp, never with "=".
\* ------------------------------------------------------------------------
RMk(n, d, s) == << n, d, IF n = <<>> THEN 1 ELSE s >>
RInt(n) == RMk(BFromInt(IF n < 0 THEN -n ELSE n), <<1>>, IF n < 0 THEN -1 ELSE 1)
\* n / d for an integer n and d > 0
RFrac(n, d) ==
    RMk(BFromInt(IF n < 0 THEN -n ELSE n), BFromInt(d), IF n < 0 THEN -1 ELSE 1)
RNeg(x) == RMk(x[1], x[2], -x[3])
RIsZero(x) == x[1] = <<>>

\* sx * a / den + sy * b / den
RAddMag(a, b, den, sx, sy) ==
    IF sx = sy THEN RMk(BAdd(a, b), den, sx)
    ELSE IF BLeq(b, a) THEN RMk(BSub(a, b), den, sx)
    ELSE RMk(BSub(b, a), den, sy)

RAdd(x, y) ==
    RAddMag(BMul(x[1], y[2]), BMul(y[1], x[2]), BMul(x[2], y[2]), x[3], y[3])
RSub(x, y) == RAdd(x, RNeg(y))
RMul(x, y) == RMk(BMul(x[1], y[1]), BMul(x[2], y[2]), x[3] * y[3])
\* x / y for y # 0
RDiv(x, y) == RMk(BMul(x[1], y[2]), BMul(x[2], y[1]), x[3] * y[3])

\* -1, 0, 1 as x < y, x = y, x > y
RCmp(x, y) ==
    IF x[3] # y[3] THEN (IF x[3] < y[3] THEN -1 ELSE 1)
    ELSE x[3] * BCmp(BMul(x[1], y[2]), BMul(y[1], x[2]))
RLess(x, y) == RCmp(x, y) < 0
RLeq(x, y) == RCmp(x, y) <= 0
REq(x, y) == RCmp(x, y) = 0

\* Python's floor division by 1: the largest integer <= x, as a rational
RFloor(x) ==
    IF x[3] = 1 THEN RMk(BDiv(x[1], x[2]), <<1>>, 1)
    ELSE RMk(BDiv(BAdd(x[1], BSub(x[2], <<1>>)), x[2]), <<1>>, -1)

\* ------------------------------------------------------------------------
\* Ship kinds and their thrust (class constants)
\* ------------------------------------------------------------------------
ShipKinds == {"escort", "fighter", "tug", "port"}

\* thrust = 1 (Ship, Escort), 0.01 (Tug), 3 (Fighter), 0 (Port), as a fraction
ThrustFrac(kind) ==
    CASE kind = "escort"  -> <<1, 1>>
      [] kind = "fighter" -> <<3, 1>>
      [] kind = "tug"     -> <<1, 100>>
      [] kind = "port"    -> <<0, 1>>

Thrust(kind) == RFrac(ThrustFrac(kind)[1], ThrustFrac(kind)[2])

\* ------------------------------------------------------------------------
\* Ship._simple_flight_plan
\* ------------------------------------------------------------------------
\* burn_time = cruise_speed / thrust
BurnTime(cruise_speed, thrust) == RDiv(cruise_speed, thrust)

\* burn_distance = burn_time * (burn_time + 1) // 2 * thrust
\* ("*" and "//" associate to the left: the product is floor-divided by 2,
\* and the floored quotient is multiplied by thrust)
BurnDistance(burn_time, thrust) ==
    RMul(RFloor(RDiv(RMul(burn_time, RAdd(burn_time, RInt(1))), RInt(2))),
         thrust)

\* the planner's locals once burn_time is computed (lines 96, 100)
LocalsOf(cruise_speed, burn_time, thrust, iters) ==
    [cruise_speed  |-> cruise_speed,
     burn_time     |-> burn_time,
     burn_distance |-> BurnDistance(burn_time, thrust),
     iters         |-> iters]

\* lines 95-96 and 99-100; iters counts the turns of the loop so far
LocalsAt(cruise_speed, thrust, iters) ==
    LocalsOf(cruise_speed, BurnTime(cruise_speed, thrust), thrust, iters)

\* the locals when the loop is reached
PlanEnter(cruise_speed, thrust) == LocalsAt(cruise_speed, thrust, 0)

\* a loop test that lets burn_distance = travel_dist / 2 through
LoopCondStrict(l, travel_dist) ==
    RLess(RDiv(travel_dist, RInt(2)), l.burn_distance)

\* while burn_distance >= travel_dist / 2
LoopCond(l, travel_dist) ==
    RLeq(RDiv(travel_dist, RInt(2)), l.burn_distance)

\* a loop body that does not reduce the speed
ReduceSpeedNot(cruise_speed) == cruise_speed

\* cruise_speed *= 0.95
ReduceSpeed(cruise_speed) == RMul(cruise_speed, RFrac(19, 20))

\* one turn of the loop body, lines 98-100
LoopBody(l, thrust) ==
    LocalsAt(ReduceSpeed(l.cruise_speed), thrust, l.iters + 1)

\* a plan whose arrival counts the break burn twice
PlanArrivalLate(l, cruise_dist, cruise_time, total, cutoff, break_burn) ==
    [cutoff |-> cutoff, break_burn |-> break_burn,
     arrival |-> RAdd(RAdd(break_burn, l.burn_time), l.burn_time),
     total |-> total,
     cruise_speed |-> l.cruise_speed, burn_time |-> l.burn_time,
     burn_distance |-> l.burn_distance, cruise_dist |-> cruise_dist,
     cruise_time |-> cruise_time, iters |-> l.iters]

\* line 106, and the record of the plan with the locals it came from
PlanArrival(l, cruise_dist, cruise_time, total, cutoff, break_burn) ==
    [cutoff |-> cutoff, break_burn |-> break_burn,
     arrival |-> RAdd(break_burn, l.burn_time), total |-> total,
     cruise_speed |-> l.cruise_speed, burn_time |-> l.burn_time,
     burn_distance |-> l.burn_distance, cruise_dist |-> cruise_dist,
     cruise_time |-> cruise_time, iters |-> l.iters]

\* line 105
PlanBreak(l, cruise_dist, cruise_time, total, cutoff) ==
    PlanArrival(l, cruise_dist, cruise_time, total, cutoff,
                RAdd(cutoff, cruise_time))

\* lines 103-104
PlanTimes(l, cruise_dist, cruise_time, tick_offset) ==
    PlanBreak(l, cruise_dist, cruise_time,
              RAdd(RMul(l.burn_time, RInt(2)), cruise_time),
              RAdd(tick_offset, l.burn_time))

\* line 102
PlanCruise(l, cruise_dist, tick_offset) ==
    PlanTimes(l, cruise_dist, RDiv(cruise_dist, l.cruise_speed), tick_offset)

\* lines 101-107, l the locals the loop ended with
PlanTail(l, travel_dist, tick_offset) ==
    PlanCruise(l, RSub(travel_dist, RMul(l.burn_distance, RInt(2))),
               tick_offset)

\* assert arrival / (tick_offset + total) - 1 < EPSILON, EPSILON > 0 small:
\* the quotient is at most 1 + EPSILON.  EpsilonInv is 1 / EPSILON.
EpsilonInv == 1000000

PlanAssertOk(fp, tick_offset) ==
    RLess(RMul(fp.arrival, RInt(EpsilonInv)),
          RMul(RAdd(tick_offset, fp.total), RInt(EpsilonInv + 1)))

RECURSIVE RunLoop(_, _, _)
RunLoop(l, travel_dist, thrust) ==
    IF LoopCond(l, travel_dist)
    THEN RunLoop(LoopBody(l, thrust), travel_dist, thrust)
    ELSE l

\* The outcome of a call: a plan, an exception, or no return at all.
\*  - thrust = 0: "cruise_speed / thrust" raises ZeroDivisionError (line 95);
\*  - travel_dist = 0: burn_distance >= 0 = travel_dist / 2 for every
\*    cruise_speed, so the loop of line 97 never exits;
\*  - tick_offset + total = 0: the assertion's division raises.
PlanReturn(fp, tick_offset) ==
    IF RIsZero(RAdd(tick_offset, fp.total)) THEN [status |-> "ZeroDivisionError"]
    ELSE IF ~PlanAssertOk(fp, tick_offset) THEN [status |-> "AssertionError"]
    ELSE [status |-> "ok", plan |-> fp]

simple_flight_plan(travel_dist, cruise_speed, thrust, tick_offset) ==
    IF RIsZero(thrust) THEN [status |-> "ZeroDivisionError"]
    ELSE IF RIsZero(travel_dist) THEN [status |-> "hang"]
    ELSE PlanReturn(PlanTail(RunLoop(PlanEnter(cruise_speed, thrust),
                                     travel_dist, thrust),
                             travel_dist, tick_offset),
                    tick_offset)

\* FlightPlan = namedtuple('FlightPlan', ['cutoff', 'break_burn', 'arrival', 'total'])
FlightPlan(fp) ==
    [cutoff |-> fp.cutoff, break_burn |-> fp.break_burn,
     arrival |-> fp.arrival, total |-> fp.total]

\* ------------------------------------------------------------------------
\* The universe of the model: five objects on a line
\* ------------------------------------------------------------------------
None == [none |-> TRUE]
\* Python None as an order uid: equal to no uid an event is ever given
NoUid == -1

Oids == 0..4
\* 0: the player's flagship; 1, 2: ships of the player's fleet;
\* 3: a celestial body; 4: the flagship of another admiral
Kind(o) ==
    CASE o = 0 -> "escort"
      [] o = 1 -> "port"
      [] o = 2 -> "fighter"
      [] o = 3 -> "celestial"
      [] o = 4 -> "escort"

ShipOids == {o \in Oids : Kind(o) \in ShipKinds}
PlayerShip == 0
InitPosition == [o \in Oids |-> IF o \in {3, 4} THEN 4 ELSE 0]

MaxTick == 6
MaxCmds == 2
CruiseSpeeds == {1, 2}
Vectors == {-1, 0, 1}
Throttles == {1}

\* the fleet ids of the admirals: 0 the Player, 1 an Agent
Fids == {0, 1}

Abs(x) == IF x < 0 THEN -x ELSE x
Sign(x) == IF x < 0 THEN -1 ELSE IF x > 0 THEN 1 ELSE 0

VARIABLES
    tick,               \* universe.tick
    events,             \* the scheduler's pending events, in firing order
    position,           \* universe positions, by oid
    velocity,           \* universe.velocities, by oid
    acceleration,       \* engine.get_derivative_second('position'), by oid
    current_flight,     \* Ship.current_flight, by ship oid
    current_order_uid,  \* Ship.current_order_uid, by ship oid
    fleet_oids,         \* Player.fleet_oids
    feedback,           \* what universe.output_feedback last showed
    raised,             \* the exception the last operation ended with
    cmds,               \* history: the number of commands issued
    last,               \* history: the last operation and its arguments
    orders,             \* history: the fly orders issued, in order
    fired,              \* history: the event callbacks invoked, in order
    added,              \* history: the number of events ever scheduled
    plan_pc,            \* a planner call on its own: where the call is
    plan_args,          \*   the arguments of the call
    plan_locals,        \*   its locals cruise_speed, burn_time, burn_distance
    plan_result         \*   what it returned or raised

\* ------------------------------------------------------------------------
\* Scheduler (universe.add_event and universe.simulate; modelled from the
\* specification: the universe is not among the sources)
\* ------------------------------------------------------------------------
\* a scheduler that puts an event in front of the pending events of its due
add_event_lifo(evs, e) ==
    LET k == Cardinality({i \in 1..Len(evs) : RLess(evs[i].due, e.due)})
    IN  SubSeq(evs, 1, k) \o <<e>> \o SubSeq(evs, k + 1, Len(evs))

\* add_event(uid, due, callback, label): the event goes behind every
\* pending event that is due no later than it is
add_event(evs, e) ==
    LET k == Cardinality({i \in 1..Len(evs) : RLeq(evs[i].due, e.due)})
    IN  SubSeq(evs, 1, k) \o <<e>> \o SubSeq(evs, k + 1, Len(evs))

\* an event; ord (the fly order it descends from) and seq (its number among
\* the events ever added) are history
Event(uid, due, cb, s, ord, seq) ==
    [uid |-> uid, due |-> due, cb |-> cb, ship |-> s, ord |-> ord, seq |-> seq]

\* self.universe.add_event(uid, due, callback, label), called by ship s
schedule(w, uid, due, cb, s, ord) ==
    [w EXCEPT !.events = add_event(@, Event(uid, due, cb, s, ord, w.added + 1)),
              !.added = @ + 1]

\* ------------------------------------------------------------------------
\* Ship: engine
\* A world w is the part of the state a ship method reads and writes:
\* [acc, flight, events, raised, fired, added].
\* ------------------------------------------------------------------------
ThrustInt(s) == ThrustFrac(Kind(s))[1] \div ThrustFrac(Kind(s))[2]

\* Ship.engine_burn(vector, throttle)
engine_burn(w, s, vector, throttle) ==
    IF Abs(vector) = 0 THEN w
    ELSE [w EXCEPT !.acc[s] = Sign(vector) * ThrustInt(s) * throttle]

\* Ship.engine_cut_burn()
engine_cut_burn(w, s) == [w EXCEPT !.acc[s] = 0]

\* a break burn without the test for a zero velocity
engine_break_burn_unchecked(w, s, throttle, auto_cutoff, v, t) ==
    IF ~auto_cutoff \/ ThrustInt(s) = 0 THEN engine_burn(w, s, -v, throttle)
    ELSE schedule(engine_burn(w, s, -v, throttle), 0,
                  RAdd(RInt(t), RDiv(RInt(Abs(v)), Thrust(Kind(s)))),
                  "engine_cut_burn", s, 0)

\* a break burn whose cutoff comes after mag ticks, whatever the thrust
engine_break_burn_undivided(w, s, throttle, auto_cutoff, v, t) ==
    IF Abs(v) = 0 THEN w
    ELSE IF ~auto_cutoff THEN engine_burn(w, s, -v, throttle)
    ELSE schedule(engine_burn(w, s, -v, throttle), 0,
                  RAdd(RInt(t), RInt(Abs(v))), "engine_cut_burn", s, 0)

\* Ship.engine_break_burn(throttle, auto_cutoff); v is the ship's velocity,
\* t the universe tick
engine_break_burn(w, s, throttle, auto_cutoff, v, t) ==
    IF Abs(v) = 0 THEN w
    ELSE LET w1 == engine_burn(w, s, -v, throttle)
         IN  IF ~auto_cutoff THEN w1
             \* thrust = 0: numpy divides to inf, an event that is never due
             ELSE IF ThrustInt(s) = 0 THEN w1
             ELSE schedule(w1, 0, RAdd(RInt(t), RDiv(RInt(Abs(v)), Thrust(Kind(s)))),
                           "engine_cut_burn", s, 0)

\* ------------------------------------------------------------------------
\* Ship: orders
\* ------------------------------------------------------------------------
\* a fly_to that schedules its cutoff under a uid of its own
FlyToEventUidFresh(s, uid_now) == 1

\* the uid fly_to hands to add_event for the cutoff event (line 71)
FlyToEventUid(s, uid_now) == 0

\* lines 69-74 of fly_to, r the planner's outcome
fly_plan(w, s, travel_vector, r, uid_now, ord) ==
    IF r.status # "ok" THEN [w EXCEPT !.raised = r.status]
    ELSE [schedule(engine_burn(w, s, travel_vector, 1),
                   FlyToEventUid(s, uid_now), r.plan.cutoff,
                   "fly_cruise_cutoff", s, ord)
            EXCEPT !.flight[s] = FlightPlan(r.plan)]

\* Ship.fly_to(oid, cruise_speed); pos the positions, t the universe tick,
\* ord the number of this order in the history
fly_to(w, s, oid, cruise_speed, pos, t, uid_now, ord) ==
    fly_plan(w, s, pos[oid] - pos[s],
             simple_flight_plan(RInt(Abs(pos[oid] - pos[s])), RInt(cruise_speed),
                                Thrust(Kind(s)), RInt(t)),
             uid_now, ord)

\* Ship.check_obsolete_order(uid)
check_obsolete_order(uid, uid_now) == uid # uid_now

\* a decorator that lets every callback run
CallbackRunsAlways(uid, uid_now) == TRUE

\* the event_callback decorator: whether the wrapped body runs
CallbackRuns(uid, uid_now) == ~(uid # 0 /\ check_obsolete_order(uid, uid_now))

\* line 79: the next event of the chain is due at a time read from
\* self.current_flight, which may be None by now
chain(w, e, field, cb) ==
    IF w.flight[e.ship] = None THEN [w EXCEPT !.raised = "AttributeError"]
    ELSE schedule(w, e.uid, w.flight[e.ship][field], cb, e.ship, e.ord)

\* Ship.fly_cruise_cutoff(uid), the body
fly_cruise_cutoff(w, e, v, t) ==
    chain(engine_cut_burn(w, e.ship), e, "break_burn", "fly_break_burn")

\* Ship.fly_break_burn(uid), the body
fly_break_burn(w, e, v, t) ==
    chain(engine_break_burn(w, e.ship, 1, FALSE, v, t), e, "arrival", "fly_end")

\* Ship.fly_end(uid), the body
fly_end(w, e, v, t) ==
    [engine_cut_burn(w, e.ship) EXCEPT !.flight[e.ship] = None]

\* firing one event: the callback is invoked with the event's uid
Fire(w, e, vel, t, uids) ==
    LET s    == e.ship
        runs == IF e.cb = "engine_cut_burn" THEN TRUE
                ELSE CallbackRuns(e.uid, uids[s])
        w1   == [w EXCEPT !.fired = Append(@,
                    [cb |-> e.cb, ship |-> s, uid |-> e.uid, ord |-> e.ord,
                     seq |-> e.seq, added |-> w.added, tick |-> t,
                     due |-> e.due, ran |-> runs])]
    IN  IF ~runs THEN w1
        ELSE CASE e.cb = "fly_cruise_cutoff" -> fly_cruise_cutoff(w1, e, vel[s], t)
               [] e.cb = "fly_break_burn"    -> fly_break_burn(w1, e, vel[s], t)
               [] e.cb = "fly_end"           -> fly_end(w1, e, vel[s], t)
               [] e.cb = "engine_cut_burn"   -> engine_cut_burn(w1, s)

\* whether the first pending event is due
HeadDue(evs, t) == evs # <<>> /\ RLeq(Head(evs).due, RInt(t))

\* universe.simulate, after the clock moved: pops and fires every pending
\* event that is due, in queue order, those the callbacks add included
RECURSIVE FireDue(_, _, _, _)
FireDue(w, vel, t, uids) ==
    IF ~HeadDue(w.events, t) THEN w
    ELSE FireDue(Fire([w EXCEPT !.events = Tail(@)], Head(w.events), vel, t, uids),
                 vel, t, uids)

\* ------------------------------------------------------------------------
\* Commands
\* ------------------------------------------------------------------------
CommandNames == {"fly", "burn", "break", "cut"}

\* the argument lists a command is given
ArgsOf(name) ==
    CASE name = "fly"   -> [oid : Oids, speed : CruiseSpeeds,
                            vector : {0}, throttle : {1}, auto : {FALSE}]
      [] name = "burn"  -> [oid : {0}, speed : {1},
                            vector : Vectors, throttle : Throttles, auto : {FALSE}]
      [] name = "break" -> [oid : {0}, speed : {1},
                            vector : {0}, throttle : Throttles, auto : BOOLEAN]
      [] name = "cut"   -> [oid : {0}, speed : {1},
                            vector : {0}, throttle : {1}, auto : {FALSE}]

World ==
    [acc |-> acceleration, flight |-> current_flight, events |-> events,
     raised |-> "none", fired |-> fired, added |-> added]

\* ship.commands[command_name](*args): Ship.register_commands, lines 33-38
ShipCommand(w, s, name, a) ==
    CASE name = "fly"   -> fly_to(w, s, a.oid, a.speed, position, tick,
                                  current_order_uid[s], Len(orders) + 1)
      [] name = "burn"  -> engine_burn(w, s, a.vector, a.throttle)
      [] name = "break" -> engine_break_burn(w, s, a.throttle, a.auto,
                                             velocity[s], tick)
      [] name = "cut"   -> engine_cut_burn(w, s)

\* an order_ship that passes an order on to any ship
OrderAllowedAnyShip(oid, fleet) == oid \in ShipOids

\* whether Player.order_ship passes the order on to the ship
OrderAllowed(oid, fleet) == oid \in fleet

\* the state after a ship method left the world w; a fly order that was
\* issued goes to the history
Apply(w, s, name, a) ==
    /\ acceleration' = w.acc
    /\ current_flight' = w.flight
    /\ events' = w.events
    /\ raised' = w.raised
    /\ fired' = w.fired
    /\ added' = w.added
    /\ orders' = IF name = "fly" /\ w.raised = "none"
                 THEN Append(orders,
                        [ship |-> s, target |-> a.oid, tick |-> tick,
                         vector |-> position[a.oid] - position[s],
                         token |-> current_order_uid[s],
                         uid |-> FlyToEventUid(s, current_order_uid[s]),
                         plan |-> w.flight[s]])
                 ELSE orders

Running == raised # "hang"

VARIABLES
    ds_objects,         \* universe.ds_objects: the registry, oid i at index i + 1
    ds_celestials,      \* universe.ds_celestials: the celestial mask, by index
    fleet,              \* Admiral.fleet, by fid: the roster, as oids
    adm_fleet_oids,     \* Admiral.fleet_oids, by fid
    my_ship,            \* Admiral.my_ship, by fid: the flagship's oid
    dest_pc,            \* Agent.get_new_destination: where the call is
    dest_oid,           \*   its local oid
    patrol_status,      \* Agent.first_order: how the call ended
    patrol,             \*   the oids handed to order_patrol
    quat_pc,            \* a Quaternion call on its own: which one was made
    quat_q,             \*   the quaternion q
    quat_vs,            \*   the vectors
    quat_n,             \*   the exponent
    quat_out            \*   what the call returned

planvars == <<plan_pc, plan_args, plan_locals, plan_result>>
regvars == <<ds_objects, ds_celestials, fleet, adm_fleet_oids, my_ship,
             dest_pc, dest_oid, patrol_status, patrol>>
quatvars == <<quat_pc, quat_q, quat_vs, quat_n, quat_out>>
shipvars == <<tick, events, position, velocity, acceleration, current_flight,
              current_order_uid, fleet_oids, feedback, raised, cmds, last,
              orders, fired, added>>
vars == <<shipvars, planvars, regvars, quatvars>>

\* a command of the player's own ship ('ship.fly', 'ship.burn', ...)
ShipCmd(name, a) ==
    /\ Running /\ cmds < MaxCmds
    /\ Apply(ShipCommand(World, PlayerShip, name, a), PlayerShip, name, a)
    /\ cmds' = cmds + 1
    /\ last' = [op |-> "ship", cmd |-> name, oid |-> PlayerShip, args |-> a,
                denied |-> FALSE]
    /\ UNCHANGED <<tick, position, velocity, current_order_uid, fleet_oids,
                   feedback, planvars, regvars, quatvars>>

\* Player.order_ship(command_name, oid, *args)
OrderShip(name, oid, a) ==
    /\ Running /\ cmds < MaxCmds
    /\ IF ~OrderAllowed(oid, fleet_oids)
       THEN /\ feedback' = <<"not in my fleet", oid>>
            /\ raised' = "none"
            /\ UNCHANGED <<acceleration, current_flight, events, fired, added,
                           orders>>
       ELSE /\ Apply(ShipCommand(World, oid, name, a), oid, name, a)
            /\ UNCHANGED feedback
    /\ cmds' = cmds + 1
    /\ last' = [op |-> "order", cmd |-> name, oid |-> oid, args |-> a,
                denied |-> ~OrderAllowed(oid, fleet_oids)]
    /\ UNCHANGED <<tick, position, velocity, current_order_uid, fleet_oids,
                   planvars, regvars, quatvars>>

NoArgs == [oid |-> 0, speed |-> 1, vector |-> 0, throttle |-> 1, auto |-> FALSE]

\* universe.simulate, one tick: every object is integrated, the clock
\* moves, the due events fire
Advance ==
    /\ Running /\ tick < MaxTick
    /\ velocity' = [o \in Oids |-> velocity[o] + acceleration[o]]
    /\ position' = [o \in Oids |-> position[o] + velocity'[o]]
    /\ Apply(FireDue(World, velocity', tick + 1, current_order_uid),
             0, "", NoArgs)
    /\ tick' = tick + 1
    /\ last' = [op |-> "simulate", cmd |-> "", oid |-> 0, args |-> NoArgs,
                denied |-> FALSE]
    /\ UNCHANGED <<current_order_uid, fleet_oids, feedback, cmds, planvars,
                   regvars, quatvars>>


\* the universe as it is made: every object at rest, no event pending
UniverseInit ==
    /\ tick = 0
    /\ events = <<>>
    /\ position = InitPosition
    /\ velocity = [o \in Oids |-> 0]
    /\ acceleration = [o \in Oids |-> 0]
    /\ current_flight = [s \in ShipOids |-> None]
    /\ current_order_uid = [s \in ShipOids |-> NoUid]
    /\ fleet_oids = {1, 2}
    /\ feedback = <<>>
    /\ raised = "none"
    /\ cmds = 0
    /\ last = [op |-> "init", cmd |-> "", oid |-> 0, args |-> NoArgs,
               denied |-> FALSE]
    /\ orders = <<>>
    /\ fired = <<>>
    /\ added = 0

\* no planner call on its own
PlanOff ==
    /\ plan_pc = "off"
    /\ plan_args = None
    /\ plan_locals = None
    /\ plan_result = None

\* an empty registry, admirals that were not set up
RegistryInit ==
    /\ ds_objects = <<>>
    /\ ds_celestials = <<>>
    /\ fleet = [f \in Fids |-> <<>>]
    /\ adm_fleet_oids = [f \in Fids |-> {}]
    /\ my_ship = [f \in Fids |-> NoUid]
    /\ dest_pc = "idle"
    /\ dest_oid = NoUid
    /\ patrol_status = "none"
    /\ patrol = <<>>

\* no Quaternion call on its own
QuatOff ==
    /\ quat_pc = "off"
    /\ quat_q = None
    /\ quat_vs = <<>>
    /\ quat_n = 0
    /\ quat_out = None

Init ==
    /\ UniverseInit
    /\ PlanOff
    /\ RegistryInit
    /\ QuatOff

Next ==
    \/ \E name \in CommandNames : \E a \in ArgsOf(name) : ShipCmd(name, a)
    \/ \E name \in CommandNames : \E oid \in Oids : \E a \in ArgsOf(name) :
          OrderShip(name, oid, a)
    \/ Advance

Spec == Init /\ [][Next]_vars

\* ------------------------------------------------------------------------
\* A ship that coasts: the universe as it is after a ship of the fleet
\* burned along the line for some ticks and cut its engine.  The player
\* orders the ship; its event callbacks are called with any uid.
\* ------------------------------------------------------------------------
\* the ticks the ship burned for
MaxCoast == 1
\* the uids a callback is called with
MaxUid == 2
\* the ships that coast: the fighter of the player's fleet
Coasters == {2}

\* ship.fly_cruise_cutoff(uid), ship.fly_break_burn(uid), ship.fly_end(uid):
\* the decorated method is called as the scheduler calls it
CallEvent(s, cb, uid) ==
    /\ Running /\ cmds < MaxCmds
    /\ Apply(Fire(World, Event(uid, RInt(tick), cb, s, 0, 0), velocity, tick,
                  current_order_uid),
             s, "", NoArgs)
    /\ cmds' = cmds + 1
    /\ last' = [op |-> "call", cmd |-> cb, oid |-> s, args |-> NoArgs,
                denied |-> FALSE]
    /\ UNCHANGED <<tick, position, velocity, current_order_uid, fleet_oids,
                   feedback, planvars, regvars, quatvars>>

CoastInit ==
    /\ \E s \in Coasters : \E c \in 1..MaxCoast :
          /\ tick = c
          /\ velocity = [o \in Oids |-> IF o = s THEN c * ThrustInt(s) ELSE 0]
          /\ position = [o \in Oids |->
                IF o = s THEN InitPosition[o] + ThrustInt(s) * ((c * (c + 1)) \div 2)
                ELSE InitPosition[o]]
    /\ events = <<>>
    /\ acceleration = [o \in Oids |-> 0]
    /\ current_flight = [s \in ShipOids |-> None]
    /\ current_order_uid = [s \in ShipOids |-> NoUid]
    /\ fleet_oids = {1, 2}
    /\ feedback = <<>>
    /\ raised = "none"
    /\ cmds = 0
    /\ last = [op |-> "init", cmd |-> "", oid |-> 0, args |-> NoArgs,
               denied |-> FALSE]
    /\ orders = <<>>
    /\ fired = <<>>
    /\ added = 0
    /\ PlanOff /\ RegistryInit /\ QuatOff

CoastNext ==
    \/ \E name \in CommandNames : \E a \in ArgsOf(name) : OrderShip(name, 2, a)
    \/ Advance
    \/ \E s \in Coasters : \E cb \in {"fly_cruise_cutoff", "fly_break_burn", "fly_end"} :
          \E uid \in 0..MaxUid : CallEvent(s, cb, uid)

CoastSpec == CoastInit /\ [][CoastNext]_vars

\* ------------------------------------------------------------------------
\* The planner on its own: one call of Ship._simple_flight_plan, a step at
\* a time.  It is a static method: its thrust is an argument.
\* ------------------------------------------------------------------------
MaxDist == 3
MaxSpeed == 2
MaxOffset == 1
\* the turns of the loop a call is followed for
MaxIters == 80

\* a thrust no ship kind has
NegativeThrust == <<-1, 1>>
PlanThrusts == {ThrustFrac(k) : k \in ShipKinds} \cup {NegativeThrust}

PlanArgs ==
    [travel_dist : 1..MaxDist, cruise_speed : 1..MaxSpeed,
     thrust : PlanThrusts, tick_offset : 0..MaxOffset]

ArgThrust == RFrac(plan_args.thrust[1], plan_args.thrust[2])

\* lines 95-96: the division raises for thrust = 0, else the loop is reached
PlanCall ==
    /\ plan_pc = "call"
    /\ IF RIsZero(ArgThrust)
       THEN /\ plan_pc' = "raised"
            /\ plan_result' = [status |-> "ZeroDivisionError"]
            /\ UNCHANGED plan_locals
       ELSE /\ plan_pc' = "loop"
            /\ plan_locals' = PlanEnter(RInt(plan_args.cruise_speed), ArgThrust)
            /\ UNCHANGED plan_result
    /\ UNCHANGED <<plan_args, shipvars, regvars, quatvars>>

\* lines 97-100: one turn of the loop
PlanLoop ==
    /\ plan_pc = "loop"
    /\ plan_locals.iters < MaxIters
    /\ LoopCond(plan_locals, RInt(plan_args.travel_dist))
    /\ plan_locals' = LoopBody(plan_locals, ArgThrust)
    /\ UNCHANGED <<plan_pc, plan_args, plan_result, shipvars, regvars, quatvars>>

\* lines 101-109: the loop is left, the plan is asserted and returned
PlanExit ==
    /\ plan_pc = "loop"
    /\ ~LoopCond(plan_locals, RInt(plan_args.travel_dist))
    /\ plan_result' = PlanReturn(PlanTail(plan_locals, RInt(plan_args.travel_dist),
                                          RInt(plan_args.tick_offset)),
                                 RInt(plan_args.tick_offset))
    /\ plan_pc' = IF plan_result'.status = "ok" THEN "returned" ELSE "raised"
    /\ UNCHANGED <<plan_args, plan_locals, shipvars, regvars, quatvars>>

PlanInit ==
    /\ UniverseInit
    /\ plan_pc = "call"
    /\ plan_args \in PlanArgs
    /\ plan_locals = None
    /\ plan_result = None
    /\ RegistryInit
    /\ QuatOff

PlanNext == PlanCall \/ PlanLoop \/ PlanExit

PlanSpec == PlanInit /\ [][PlanNext]_vars

\* ------------------------------------------------------------------------
\* Admirals and the registry of objects.  universe.add_object is modelled
\* from the specification (the universe is not among the sources): the new
\* object is appended, its oid is its index, the mask follows its kind.
\* A registry r is [objs, mask, fleet, oids, flag].
\* ------------------------------------------------------------------------
MaxObjects == 4
\* the counts make_fleet is called with
MaxFleet == 2
\* k=5 in Agent.first_order
PatrolCount == 5

Registry ==
    [objs |-> ds_objects, mask |-> ds_celestials, fleet |-> fleet,
     oids |-> adm_fleet_oids, flag |-> my_ship]

\* universe.add_object(cls, fid=..., name=...): the new object's oid is
\* Len(r.objs)
add_object(r, kind, fid) ==
    [r EXCEPT !.objs = Append(@, [kind |-> kind, fid |-> fid]),
              !.mask = Append(@, kind = "celestial")]

\* an add_flagship that puts the flagship on the roster, as add_ship does
add_flagship_listed(r, f) ==
    [add_object(r, "escort", f) EXCEPT !.flag[f] = Len(r.objs),
                                       !.fleet[f] = Append(@, Len(r.objs)),
                                       !.oids[f] = @ \cup {Len(r.objs)}]

\* Admiral.add_flagship()
add_flagship(r, f) ==
    [add_object(r, "escort", f) EXCEPT !.flag[f] = Len(r.objs)]

\* an add_ship that leaves fleet_oids alone
add_ship_unlisted(r, f, cls) ==
    [add_object(r, cls, f) EXCEPT !.fleet[f] = Append(@, Len(r.objs))]

\* Admiral.add_ship(cls, name, parent)
add_ship(r, f, cls) ==
    [add_object(r, cls, f) EXCEPT !.fleet[f] = Append(@, Len(r.objs)),
                                  !.oids[f] = @ \cup {Len(r.objs)}]

\* lines 80-85 of make_fleet: the class of the i-th ship
FleetClass(i) ==
    IF i % 10 = 0 THEN "port" ELSE IF i % 10 < 3 THEN "fighter" ELSE "tug"

\* Player.make_fleet(count), from its i-th turn on
RECURSIVE make_fleet_from(_, _, _)
make_fleet_from(r, i, count) ==
    IF i >= count THEN r
    ELSE make_fleet_from(add_ship(r, 0, FleetClass(i)), i + 1, count)

make_fleet(r, count) == make_fleet_from(r, 0, count)

\* Player.setup(controller) on an empty universe, with a fleet of count
\* ships: the flagship, then the fleet
PlayerSetup(count) ==
    make_fleet(add_flagship([objs |-> <<>>, mask |-> <<>>,
                             fleet |-> [f \in Fids |-> <<>>],
                             oids |-> [f \in Fids |-> {}],
                             flag |-> [f \in Fids |-> NoUid]], 0),
               count)

\* random.randint(0, object_count - 1): the values it may return
randint(object_count) == 0..(object_count - 1)

\* a test every object passes
IsAnyObject(objs, oid) == TRUE

\* isinstance(self.universe.ds_objects[oid], CelestialObject)
IsCelestialObject(objs, oid) == objs[oid + 1].kind = "celestial"

\* np.flatnonzero(self.universe.ds_celestials)
flatnonzero(mask) == {i - 1 : i \in {j \in DOMAIN mask : mask[j]}}

SetRegistry(r) ==
    /\ ds_objects' = r.objs
    /\ ds_celestials' = r.mask
    /\ fleet' = r.fleet
    /\ adm_fleet_oids' = r.oids
    /\ my_ship' = r.flag

agentvars == <<dest_pc, dest_oid, patrol_status, patrol>>

\* get_new_destination does not return while it draws: nothing is added
\* to the registry meanwhile
CanAdd(n) == dest_pc # "loop" /\ Len(ds_objects) + n <= MaxObjects

\* the universe adds a celestial object
AddCelestial ==
    /\ CanAdd(1)
    /\ SetRegistry(add_object(Registry, "celestial", NoUid))
    /\ UNCHANGED <<agentvars, shipvars, planvars, quatvars>>

\* Admiral.setup()
AdmiralSetup(f) ==
    /\ CanAdd(1) /\ my_ship[f] = NoUid
    /\ SetRegistry(add_flagship(Registry, f))
    /\ UNCHANGED <<agentvars, shipvars, planvars, quatvars>>

\* Admiral.add_ship(cls, name, parent)
AddShip(f, cls) ==
    /\ CanAdd(1)
    /\ SetRegistry(add_ship(Registry, f, cls))
    /\ UNCHANGED <<agentvars, shipvars, planvars, quatvars>>

\* Player.make_fleet(count); parent=self.my_ship: the flagship is there
MakeFleet(count) ==
    /\ CanAdd(count) /\ my_ship[0] # NoUid
    /\ SetRegistry(make_fleet(Registry, count))
    /\ UNCHANGED <<agentvars, shipvars, planvars, quatvars>>

\* line 105: the first draw; randint raises on an empty range
GndCall ==
    /\ dest_pc = "idle"
    /\ IF Len(ds_objects) = 0
       THEN dest_pc' = "raised" /\ UNCHANGED dest_oid
       ELSE /\ dest_pc' = "loop"
            /\ \E oid \in randint(Len(ds_objects)) : dest_oid' = oid
    /\ UNCHANGED <<ds_objects, ds_celestials, fleet, adm_fleet_oids, my_ship,
                   patrol_status, patrol, shipvars, planvars, quatvars>>

\* lines 106-107: the object drawn is no celestial, another is drawn
GndRetry ==
    /\ dest_pc = "loop"
    /\ ~IsCelestialObject(ds_objects, dest_oid)
    /\ \E oid \in randint(Len(ds_objects)) : dest_oid' = oid
    /\ UNCHANGED <<ds_objects, ds_celestials, fleet, adm_fleet_oids, my_ship,
                   dest_pc, patrol_status, patrol, shipvars, planvars, quatvars>>

\* line 108: the object drawn is celestial, its oid is returned
GndReturn ==
    /\ dest_pc = "loop"
    /\ IsCelestialObject(ds_objects, dest_oid)
    /\ dest_pc' = "returned"
    /\ UNCHANGED <<ds_objects, ds_celestials, fleet, adm_fleet_oids, my_ship,
                   dest_oid, patrol_status, patrol, shipvars, planvars, quatvars>>

\* Agent.first_order(uid), the event Agent.setup schedules: random.choices
\* raises on an empty population, else the oids go to my_ship.order_patrol
FirstOrder ==
    /\ patrol_status = "none" /\ my_ship[1] # NoUid /\ dest_pc # "loop"
    /\ IF flatnonzero(ds_celestials) = {}
       THEN patrol_status' = "IndexError" /\ UNCHANGED patrol
       ELSE /\ patrol_status' = "ordered"
            /\ \E oids \in [1..PatrolCount -> flatnonzero(ds_celestials)] :
                  patrol' = oids
    /\ UNCHANGED <<ds_objects, ds_celestials, fleet, adm_fleet_oids, my_ship,
                   dest_pc, dest_oid, shipvars, planvars, quatvars>>

FleetInit == UniverseInit /\ PlanOff /\ RegistryInit /\ QuatOff

FleetNext ==
    \/ AddCelestial
    \/ \E f \in Fids : AdmiralSetup(f)
    \/ \E f \in Fids : \E cls \in {"tug", "fighter"} : AddShip(f, cls)
    \/ \E count \in 1..MaxFleet : MakeFleet(count)
    \/ GndCall
    \/ GndRetry
    \/ GndReturn
    \/ FirstOrder

FleetSpec == FleetInit /\ [][FleetNext]_vars

\* ------------------------------------------------------------------------
\* Quaternion (logic/_3d/quaternion.py).  A float64 is the integer number
\* of its 1 / Scale parts: sums and differences are exact, a product is
\* exact when it is a multiple of 1 / Scale (as for integers, halves and
\* quarters), math functions are cut to 1 / Scale.  A quaternion is
\* <<w, x, y, z>>, a vector <<x, y, z>>.
\* ------------------------------------------------------------------------
Scale == 4096
\* the terms of the series math.sin, math.cos, math.exp, math.log are
\* summed to
MathTerms == 12
\* the rows rotate_vectors is given
MaxVecs == 2

FInt(n) == n * Scale
FMul(a, b) == (a * b) \div Scale
FDiv(a, b) == (a * Scale) \div b

\* np.dot of two vectors
dot(a, b) == FMul(a[1], b[1]) + FMul(a[2], b[2]) + FMul(a[3], b[3])

\* np.cross of two vectors
cross(a, b) ==
    << FMul(a[2], b[3]) - FMul(a[3], b[2]),
       FMul(a[3], b[1]) - FMul(a[1], b[3]),
       FMul(a[1], b[2]) - FMul(a[2], b[1]) >>

\* v * k and a + b on arrays
times(v, k) == [i \in DOMAIN v |-> FMul(v[i], k)]
plus(a, b) == [i \in DOMAIN a |-> a[i] + b[i]]

\* Quaternion.from_vector(v)
from_vector(v) == <<0>> \o v

\* an inverse that conjugates nothing
inverse_none(q) == q

\* Quaternion.inverse(q): q * (1, -1, -1, -1)
inverse(q) == <<q[1], -q[2], -q[3], -q[4]>>

\* Quaternion.multi(qr, qs)
multi(qr, qs) ==
    <<FMul(qr[1], qs[1]) - dot(Tail(qr), Tail(qs))>>
    \o plus(plus(times(Tail(qr), qs[1]), times(Tail(qs), qr[1])),
            cross(Tail(qr), Tail(qs)))

\* Quaternion.rotate_quaternion(p, q)
rotate_quaternion(p, q) == multi(multi(q, p), inverse(q))

\* Quaternion.rotate_vector(v, q)
rotate_vector(v, q) == Tail(rotate_quaternion(from_vector(v), q))

\* a product of many by one with the cross product the other way round
multiply_many_one_swapped(qr, qs) ==
    [i \in DOMAIN qr |->
        <<FMul(qr[i][1], qs[1]) - dot(Tail(qr[i]), Tail(qs))>>
        \o plus(plus(times(Tail(qr[i]), qs[1]), times(Tail(qs), qr[i][1])),
                cross(Tail(qs), Tail(qr[i])))]

\* Quaternion.multiply_many_one(qr, qs): row i is qr[i] * qs
multiply_many_one(qr, qs) ==
    [i \in DOMAIN qr |->
        <<FMul(qr[i][1], qs[1]) - dot(Tail(qr[i]), Tail(qs))>>
        \o plus(plus(times(Tail(qr[i]), qs[1]), times(Tail(qs), qr[i][1])),
                cross(Tail(qr[i]), Tail(qs)))]

\* Quaternion.multiply_one_many(qr, qs): row i is qr * qs[i]
multiply_one_many(qr, qs) ==
    [i \in DOMAIN qs |->
        <<FMul(qr[1], qs[i][1]) - dot(Tail(qs[i]), Tail(qr))>>
        \o plus(plus(times(Tail(qr), qs[i][1]), times(Tail(qs[i]), qr[1])),
                cross(Tail(qr), Tail(qs[i])))]

\* Quaternion.rotate_quaternions(p, q)
rotate_quaternions(p, q) ==
    multiply_many_one(multiply_one_many(q, p), inverse(q))

\* Quaternion.rotate_vectors(vectors, q): a zero column is put in front of
\* the rows, the rows are rotated, the first column is dropped
rotate_vectors(vectors, q) ==
    [i \in DOMAIN vectors |->
        Tail(rotate_quaternions([j \in DOMAIN vectors |-> <<0>> \o vectors[j]], q)[i])]

\* math.sqrt, cut: the largest r with r * r <= n
RECURSIVE ISqrt(_, _, _)
ISqrt(n, lo, hi) ==
    IF lo >= hi THEN lo
    ELSE IF ((lo + hi + 1) \div 2) * ((lo + hi + 1) \div 2) <= n
         THEN ISqrt(n, (lo + hi + 1) \div 2, hi)
         ELSE ISqrt(n, lo, (lo + hi + 1) \div 2 - 1)

sqrt(x) == ISqrt(x * Scale, 0, 46340)

\* the sums of the power series of sin, cos and exp from the k-th term t
\* on, each term made from the one before it
RECURSIVE SinSum(_, _, _)
SinSum(x, t, k) ==
    IF k > MathTerms \/ t = 0 THEN 0
    ELSE t + SinSum(x, -((FMul(FMul(Abs(t), x), x) \div (2 * k * (2 * k + 1))) * Sign(t)),
                    k + 1)

RECURSIVE CosSum(_, _, _)
CosSum(x, t, k) ==
    IF k > MathTerms \/ t = 0 THEN 0
    ELSE t + CosSum(x, -((FMul(FMul(Abs(t), x), x) \div ((2 * k - 1) * 2 * k)) * Sign(t)),
                    k + 1)

RECURSIVE ExpSum(_, _, _)
ExpSum(x, t, k) ==
    IF k > MathTerms \/ t = 0 THEN 0
    ELSE t + ExpSum(x, (FMul(Abs(t), Abs(x)) \div k) * Sign(t) * Sign(x), k + 1)

\* 2 * (z + z^3 / 3 + z^5 / 5 + ...), p the power of z reached
RECURSIVE LogSum(_, _, _)
LogSum(z, p, k) ==
    IF k > MathTerms \/ p = 0 THEN 0
    ELSE (2 * p) \div (2 * k - 1)
         + LogSum(z, FMul(FMul(Abs(p), z), z) * Sign(p), k + 1)

\* math.sin(x), math.cos(x), math.exp(x) for x >= 0 or x < 0;
\* math.log(x) for x > 0, with z = (x - 1) / (x + 1)
sin(x) == SinSum(x, x, 1)
cos(x) == CosSum(x, Scale, 1)
exp_(x) == ExpSum(x, Scale, 1)
log(x) == LogSum(FDiv(Abs(x - Scale), x + Scale) * Sign(x - Scale),
                 FDiv(Abs(x - Scale), x + Scale) * Sign(x - Scale), 1)

\* EPSILON, cut to a multiple of 1 / Scale
FEpsilon == Scale \div EpsilonInv

\* Quaternion.ln(q).  Lines 155 and 157 compute t = atan2(r, w) / r and
\* v_ = v * t; line 158 returns v, not v_
ln(q) ==
    <<FMul(log(dot(Tail(q), Tail(q)) + FMul(q[1], q[1])), Scale \div 2)>> \o Tail(q)

\* Quaternion.exp(q)
exp(q) ==
    LET r  == sqrt(dot(Tail(q), Tail(q)))
        et == exp_(q[1])
    IN  <<FMul(et, cos(r))>>
        \o times(Tail(q), IF r > FEpsilon THEN FDiv(FMul(et, sin(r)), r) ELSE 0)

\* Quaternion.pow(q, n)
pow(q, n) == exp(times(ln(q), FInt(n)))

\* the inputs of the calls: quaternions of integers and of halves, rows
\* of integers
Norm2(a) == LET sq == [i \in DOMAIN a |-> FMul(a[i], a[i])]
            IN  IF Len(a) = 3 THEN sq[1] + sq[2] + sq[3]
                ELSE sq[1] + sq[2] + sq[3] + sq[4]
IsUnit(q) == Norm2(q) = Scale
\* the 8 units of integers and the 16 units of halves
UnitQuats ==
    {q \in [1..4 -> {FInt(-1), 0, FInt(1)}] : IsUnit(q)}
    \cup [1..4 -> {-(Scale \div 2), Scale \div 2}]
OtherQuats ==
    {<<0, 0, 0, 0>>, <<FInt(1), FInt(1), 0, 0>>, <<FInt(2), 0, FInt(-1), FInt(1)>>,
     <<Scale \div 2, 0, 0, 0>>, <<FInt(1), FInt(-2), FInt(1), FInt(1)>>}
Rows == [1..3 -> {FInt(-1), 0, FInt(2)}]
BatchRows == [1..3 -> {FInt(-1), FInt(2)}]

RECURSIVE ListsOf(_, _)
ListsOf(S, n) ==
    IF n = 0 THEN {<<>>}
    ELSE ListsOf(S, n - 1) \cup {Append(l, x) : l \in {m \in ListsOf(S, n - 1) : Len(m) = n - 1}, x \in S}

QuatInputs ==
    [q : UnitQuats, vs : {<<v>> : v \in Rows}, n : {0}]
    \cup [q : UnitQuats \cup OtherQuats, vs : ListsOf(BatchRows, MaxVecs), n : {0}]
    \cup [q : UnitQuats, vs : {<<>>}, n : 0..2]

\* Quaternion.rotate_vector(vs[0], q)
RotateVector ==
    /\ quat_pc = "call" /\ Len(quat_vs) >= 1
    /\ quat_out' = rotate_vector(quat_vs[1], quat_q)
    /\ quat_pc' = "rotate_vector"
    /\ UNCHANGED <<quat_q, quat_vs, quat_n, shipvars, planvars, regvars>>

\* Quaternion.rotate_vector(out, Quaternion.inverse(q)) on what
\* rotate_vector returned
RotateBack ==
    /\ quat_pc = "rotate_vector"
    /\ quat_out' = rotate_vector(quat_out, inverse(quat_q))
    /\ quat_pc' = "rotate_back"
    /\ UNCHANGED <<quat_q, quat_vs, quat_n, shipvars, planvars, regvars>>

\* Quaternion.rotate_vectors(vs, q)
RotateVectors ==
    /\ quat_pc = "call"
    /\ quat_out' = rotate_vectors(quat_vs, quat_q)
    /\ quat_pc' = "rotate_vectors"
    /\ UNCHANGED <<quat_q, quat_vs, quat_n, shipvars, planvars, regvars>>

\* Quaternion.pow(q, n); math.log raises for the quaternion 0
Pow ==
    /\ quat_pc = "call"
    /\ IF Norm2(quat_q) = 0
       THEN quat_out' = None /\ quat_pc' = "ValueError"
       ELSE quat_out' = pow(quat_q, quat_n) /\ quat_pc' = "pow"
    /\ UNCHANGED <<quat_q, quat_vs, quat_n, shipvars, planvars, regvars>>

QuatInit ==
    /\ UniverseInit /\ PlanOff /\ RegistryInit
    /\ quat_pc = "call"
    /\ \E a \in QuatInputs : quat_q = a.q /\ quat_vs = a.vs /\ quat_n = a.n
    /\ quat_out = None

QuatNext == RotateVector \/ RotateBack \/ RotateVectors \/ Pow

QuatSpec == QuatInit /\ [][QuatNext]_vars

\* ------------------------------------------------------------------------
\* Properties
\* ------------------------------------------------------------------------
FlyChain == <<"fly_cruise_cutoff", "fly_break_burn", "fly_end">>

\* t is the first tick at which the time r has come
FirstTickAt(r, t) == RLeq(r, RInt(t)) /\ RLess(RInt(t - 1), r)

\* the event a is to fire before the event b: by due, then by insertion
FiresBefore(a, b) ==
    RLess(a.due, b.due) \/ (REq(a.due, b.due) /\ a.seq < b.seq)

\* C1: once a later fly order was issued on a ship, the events of an
\* earlier fly order on that ship fire as no-ops: their callbacks do not run.
C1_SupersededOrderIsInert ==
    \A i \in DOMAIN fired : \A j \in DOMAIN orders :
        ( /\ fired[i].ord # 0 /\ fired[i].ord < j
          /\ orders[j].ship = fired[i].ship
          /\ orders[j].tick < fired[i].tick )
        => ~fired[i].ran

\* C2: every fly order mints a token for its ship, non-zero and greater than
\* the tokens of the ship's earlier orders, and schedules its events under it.
C2_FlyMintsToken ==
    \A j \in DOMAIN orders :
        /\ orders[j].token # NoUid /\ orders[j].token # 0
        /\ orders[j].uid = orders[j].token
        /\ \A i \in 1..(j - 1) :
              orders[i].ship = orders[j].ship => orders[i].token < orders[j].token

\* C3: order_ship with an id outside the fleet's membership set reports a
\* feedback message and changes nothing else: no acceleration, velocity or
\* flight plan changes, no callback runs, no event is added.
C3_ForeignOrderDenied ==
    [][ ( /\ cmds' = cmds + 1 /\ last'.op = "order"
          /\ last'.oid \notin fleet_oids )
        => /\ feedback' = <<"not in my fleet", last'.oid>>
           /\ UNCHANGED <<acceleration, velocity, position, current_flight,
                          current_order_uid, events, added, fired, orders,
                          fleet_oids, tick>> ]_vars

C3_Witness ==
    /\ last.op = "order" /\ last.cmd = "fly" /\ last.oid = 4
    /\ last.oid \notin fleet_oids
    /\ feedback = <<"not in my fleet", 4>>
    /\ orders # <<>> /\ events # <<>>

\* C4: when the only command ever given is one fly order that was issued, its
\* three callbacks run once each in the order cutoff, break burn, arrival,
\* each at the first tick its plan time has come, each scheduled by the one
\* before; the acceleration is toward the target, then zero, then against
\* the motion, then zero, and the plan is cleared at arrival.
C4_SingleOrderChain ==
    (cmds = 1 /\ Len(orders) = 1) =>
        LET o      == orders[1]
            s      == o.ship
            n      == Len(fired)
            due    == <<o.plan.cutoff, o.plan.break_burn, o.plan.arrival>>
            toward == Sign(o.vector) * ThrustInt(s)
        IN  /\ o.vector # 0 /\ ThrustInt(s) > 0
            /\ n <= 3
            /\ \A i \in 1..n :
                  /\ fired[i].cb = FlyChain[i] /\ fired[i].ship = s
                  /\ fired[i].ran
                  /\ REq(fired[i].due, due[i])
                  /\ FirstTickAt(due[i], fired[i].tick)
            /\ \A i \in 1..3 : RLeq(due[i], RInt(tick)) => n >= i
            /\ IF n < 3
               THEN /\ Len(events) = 1
                    /\ events[1].cb = FlyChain[n + 1] /\ events[1].ship = s
                    /\ REq(events[1].due, due[n + 1])
                    /\ current_flight[s] = o.plan
               ELSE events = <<>> /\ current_flight[s] = None
            /\ acceleration[s] = CASE n = 0 -> toward
                                    [] n = 1 -> 0
                                    [] n = 2 -> -toward
                                    [] n = 3 -> 0
            /\ raised = "none"

C4_Witness ==
    /\ cmds = 1 /\ Len(orders) = 1 /\ Len(fired) = 3
    /\ fired[3].cb = "fly_end" /\ fired[3].ran
    /\ current_flight[orders[1].ship] = None
    /\ acceleration[orders[1].ship] = 0

\* C5: a planner call with a thrust that is not positive raises before the
\* loop is reached: it never gets to the loop and never returns a plan.
C5_NonPositiveThrustRejected ==
    (plan_pc # "off" /\ plan_args.thrust[1] <= 0)
        => plan_pc \in {"call", "raised"} /\ plan_locals = None

\* C6: engine_burn with a zero direction, and engine_break_burn of a ship
\* whose velocity is zero (auto_cutoff or not), leave the acceleration and
\* the pending events as they were.
C6_ZeroBurnIsNoOp ==
    [][ ( /\ cmds' = cmds + 1
          /\ (last'.op = "ship" \/ last'.oid \in fleet_oids)
          /\ \/ last'.cmd = "burn" /\ last'.args.vector = 0
             \/ last'.cmd = "break" /\ velocity[last'.oid] = 0 )
        => /\ UNCHANGED <<acceleration, velocity, position, current_flight,
                          events, added, fired>>
           /\ raised' = "none" ]_vars

C6_Witness ==
    /\ last.op = "ship" /\ last.cmd = "break" /\ last.args.auto
    /\ velocity[last.oid] = 0 /\ acceleration[last.oid] # 0
    /\ events = <<>>

\* C7: no event fires before its due tick; of two events that were pending
\* together the one that is due first fires first, and of two with the same
\* due the one scheduled first, whoever scheduled the other.
C7_FiringOrder ==
    /\ \A i \in DOMAIN fired : RLeq(fired[i].due, RInt(fired[i].tick))
    /\ \A i, j \in DOMAIN fired :
          (i < j /\ fired[j].seq <= fired[i].added)
          => FiresBefore(fired[i], fired[j])
    /\ \A i \in DOMAIN fired : \A k \in DOMAIN events :
          events[k].seq <= fired[i].added => FiresBefore(fired[i], events[k])
    /\ \A k, m \in DOMAIN events : k < m => FiresBefore(events[k], events[m])

\* an event scheduled by a callback for a due that a pending event already
\* had has fired, after that event
C7_Witness ==
    \E i, j \in DOMAIN fired :
        /\ i < j
        /\ fired[j].cb \in {"fly_break_burn", "fly_end"}
        /\ REq(fired[i].due, fired[j].due)
        /\ fired[i].seq < fired[j].seq /\ fired[j].seq <= fired[i].added

PositiveThrust == plan_pc # "off" /\ plan_args.thrust[1] > 0

\* C8: a plan returned for a positive distance, speed and thrust has
\* tick_offset < cutoff < break_burn < arrival.
C8_TimestampsOrdered ==
    (plan_pc = "returned" /\ PositiveThrust) =>
        /\ RLess(RInt(plan_args.tick_offset), plan_result.plan.cutoff)
        /\ RLess(plan_result.plan.cutoff, plan_result.plan.break_burn)
        /\ RLess(plan_result.plan.break_burn, plan_result.plan.arrival)

C8_Witness ==
    /\ plan_pc = "returned" /\ PositiveThrust
    /\ plan_result.plan.iters > 0 /\ plan_args.tick_offset > 0
    /\ plan_args.thrust = <<1, 1>>

\* C9: for a positive distance, speed and thrust the call does not raise,
\* and the plan it returns has arrival = tick_offset + total.
C9_ArrivalIsOffsetPlusTotal ==
    PositiveThrust =>
        /\ plan_pc # "raised"
        /\ plan_pc = "returned" =>
              REq(plan_result.plan.arrival,
                  RAdd(RInt(plan_args.tick_offset), plan_result.plan.total))

C9_Witness ==
    /\ plan_pc = "returned" /\ PositiveThrust
    /\ plan_args.thrust = <<1, 100>> /\ plan_args.tick_offset = 1
    /\ plan_result.status = "ok"

\* the plan returned is feasible: 2 * burn_distance < travel_dist, with a
\* positive cruise_speed and cruise time
Feasible ==
    /\ RLess(RMul(plan_result.plan.burn_distance, RInt(2)),
             RInt(plan_args.travel_dist))
    /\ RLess(RInt(0), plan_result.plan.cruise_speed)
    /\ RLess(RInt(0), plan_result.plan.cruise_time)

\* C10: for a positive distance, speed and thrust the loop ends (it is left
\* before MaxIters turns: the call always has a next step until it returns),
\* and the plan returned is feasible.
C10_LoopTerminatesFeasible ==
    PositiveThrust =>
        /\ (plan_pc = "loop" /\ LoopCond(plan_locals, RInt(plan_args.travel_dist)))
              => plan_locals.iters < MaxIters
        /\ plan_pc = "returned" => Feasible

C10_Witness ==
    /\ plan_pc = "returned" /\ PositiveThrust /\ Feasible
    /\ plan_result.plan.iters >= 10

\* ------------------------------------------------------------------------
\* Properties of the admirals and the registry (FleetSpec)
\* ------------------------------------------------------------------------
HasCelestial == \E i \in DOMAIN ds_objects : ds_objects[i].kind = "celestial"

\* C11: an oid that get_new_destination returned, and every oid that
\* first_order handed to order_patrol, is the oid of a celestial object,
\* one whose entry in the celestial mask is true.
C11_SamplesAreCelestial ==
    /\ dest_pc = "returned" =>
          /\ ds_celestials[dest_oid + 1]
          /\ ds_objects[dest_oid + 1].kind = "celestial"
    /\ patrol_status = "ordered" =>
          \A i \in DOMAIN patrol :
             /\ ds_celestials[patrol[i] + 1]
             /\ ds_objects[patrol[i] + 1].kind = "celestial"

\* both samplings returned, on a registry with ships and two celestials
C11_Witness ==
    /\ dest_pc = "returned" /\ patrol_status = "ordered"
    /\ Len(patrol) = PatrolCount
    /\ \E i \in DOMAIN ds_objects : ds_objects[i].kind # "celestial"
    /\ Cardinality(flatnonzero(ds_celestials)) >= 2

\* C12: every oid in an admiral's fleet_oids is the oid of a ship that was
\* created with the admiral's fid, fleet_oids is exactly the set of the oids
\* of the roster, and no oid is in the fleet_oids of two admirals.
C12_FleetMembership ==
    \A f \in Fids :
       /\ \A oid \in adm_fleet_oids[f] :
             /\ oid + 1 \in DOMAIN ds_objects
             /\ ds_objects[oid + 1].fid = f
             /\ ds_objects[oid + 1].kind \in ShipKinds
       /\ adm_fleet_oids[f] = {fleet[f][i] : i \in DOMAIN fleet[f]}
       /\ Cardinality(adm_fleet_oids[f]) = Len(fleet[f])
       /\ \A g \in Fids \ {f} : adm_fleet_oids[f] \cap adm_fleet_oids[g] = {}

\* both admirals have ships in their fleets, the Player two of them
C12_Witness ==
    /\ Len(fleet[0]) >= 2 /\ Len(fleet[1]) >= 1
    /\ my_ship[0] # NoUid

\* C19: on a registry without a celestial object the sampling fails:
\* get_new_destination is not found drawing again, nor has it returned,
\* and first_order has handed no oids to order_patrol.
C19_EmptyPopulationFails ==
    ~HasCelestial =>
        /\ dest_pc \in {"idle", "raised"}
        /\ patrol_status # "ordered"

\* ------------------------------------------------------------------------
\* Properties of the quaternions (QuatSpec)
\* ------------------------------------------------------------------------
\* C13: for a unit quaternion q and a vector v, rotating v by q and the
\* result by inverse(q) gives v again, and rotating v by q keeps the
\* squared norm of v.
C13_RotateThereAndBack ==
    IsUnit(quat_q) =>
       /\ quat_pc = "rotate_vector" => Norm2(quat_out) = Norm2(quat_vs[1])
       /\ quat_pc = "rotate_back" => quat_out = quat_vs[1]

\* a vector was rotated, by a quaternion of halves, to another vector
\* than it was, and back
C13_Witness ==
    /\ quat_pc = "rotate_back" /\ quat_q \in UnitQuats /\ quat_q[1] = Scale \div 2
    /\ quat_out = quat_vs[1]
    /\ rotate_vector(quat_vs[1], quat_q) # quat_vs[1]

\* C14: rotate_vectors(vectors, q) returns, row by row, what
\* rotate_vector(row, q) returns, for every q and every list of rows.
C14_BatchIsElementwise ==
    quat_pc = "rotate_vectors" =>
       /\ Len(quat_out) = Len(quat_vs)
       /\ \A i \in DOMAIN quat_vs : quat_out[i] = rotate_vector(quat_vs[i], quat_q)

\* two different rows were rotated together, by a quaternion that is no
\* unit, to other rows than they were
C14_Witness ==
    /\ quat_pc = "rotate_vectors" /\ Len(quat_vs) = 2
    /\ quat_vs[1] # quat_vs[2] /\ ~IsUnit(quat_q)
    /\ quat_out[1] # quat_vs[1] /\ quat_out[2] # quat_vs[2]

Tolerance == Scale \div 64

\* C15: for a unit quaternion q, pow(q, 1) is q within the tolerance.
C15_PowOneIsIdentity ==
    (quat_pc = "pow" /\ quat_n = 1 /\ IsUnit(quat_q)) =>
       \A i \in 1..4 : Abs(quat_out[i] - quat_q[i]) <= Tolerance

\* ------------------------------------------------------------------------
\* Properties of the event callbacks and of the break burn (CoastSpec)
\* ------------------------------------------------------------------------
\* C16: a callback called with a uid that is not 0 and not the ship's
\* current order uid leaves the ship's acceleration, its flight plan and
\* the pending events as they were and raises nothing; called with uid 0
\* its body runs: the engine is cut, or burns against a velocity that is
\* not zero, and fly_end clears the flight plan.
C16_StaleCallbackIsNoOp ==
    [][last'.op = "call" /\ fired' # fired =>
         LET f == fired'[Len(fired')]
         IN  /\ (f.uid # 0 /\ f.uid # current_order_uid[f.ship]) =>
                   /\ UNCHANGED <<acceleration, current_flight, events>>
                   /\ raised' = "none"
             /\ f.uid = 0 =>
                   /\ acceleration'[f.ship] =
                         IF f.cb # "fly_break_burn" THEN 0
                         ELSE IF velocity[f.ship] = 0 THEN acceleration[f.ship]
                         ELSE (-Sign(velocity[f.ship])) * ThrustInt(f.ship)
                   /\ f.cb = "fly_end" => current_flight'[f.ship] = None
                   /\ (f.cb # "fly_end" /\ current_flight[f.ship] # None) =>
                         Len(events') = Len(events) + 1]_vars

\* a callback was called with a stale uid while the ship burned on a
\* flight, its next event pending
C16_Witness ==
    /\ last.op = "call" /\ fired # <<>>
    /\ fired[Len(fired)].uid # 0 /\ ~fired[Len(fired)].ran
    /\ current_flight[last.oid] # None /\ acceleration[last.oid] # 0
    /\ events # <<>>

\* the last event a tick fired for ship s is the engine cutoff of a break
\* burn
CutoffFiredLast(s, before, after) ==
    \E i \in (Len(before) + 1)..Len(after) :
       /\ after[i].ship = s /\ after[i].cb = "engine_cut_burn"
       /\ \A j \in (i + 1)..Len(after) : after[j].ship # s

\* C18: a break burn with auto_cutoff of a ship whose velocity v is not
\* zero schedules exactly one event, with uid 0, due at tick + |v| / thrust;
\* when that event fires the ship's acceleration is set to zero, whatever
\* was ordered since.
C18_AutoCutoff ==
    [][/\ (/\ last'.op = "order" /\ last'.cmd = "break" /\ ~last'.denied
           /\ cmds' = cmds + 1
           /\ last'.args.auto /\ velocity[last'.oid] # 0) =>
             /\ added' = added + 1
             /\ Len(events') = Len(events) + 1
             /\ \E i \in DOMAIN events' :
                   /\ events'[i].seq = added'
                   /\ events'[i].uid = 0
                   /\ events'[i].cb = "engine_cut_burn"
                   /\ events'[i].ship = last'.oid
                   /\ REq(events'[i].due,
                          RAdd(RInt(tick),
                               RDiv(RInt(Abs(velocity[last'.oid])),
                                    Thrust(Kind(last'.oid)))))
                   /\ events = SubSeq(events', 1, i - 1)
                               \o SubSeq(events', i + 1, Len(events'))
       /\ \A s \in ShipOids :
             (tick' = tick + 1 /\ CutoffFiredLast(s, fired, fired')) =>
                acceleration'[s] = 0]_vars

\* the cutoff of a break burn fired and left the ship without
\* acceleration, after a fly order that was issued to the ship between the
\* break burn and the cutoff
C18_Witness ==
    /\ last.op = "simulate"
    /\ \E i \in DOMAIN fired : \E k \in DOMAIN orders :
          /\ fired[i].cb = "engine_cut_burn" /\ fired[i].tick = tick
          /\ orders[k].ship = fired[i].ship
          /\ orders[k].tick < fired[i].tick
          /\ acceleration[fired[i].ship] = 0
          /\ \E e \in {fired[j] : j \in DOMAIN fired} \cup {events[j] : j \in DOMAIN events} :
                e.ord = k /\ e.cb = "fly_cruise_cutoff" /\ e.seq > fired[i].seq

\* ------------------------------------------------------------------------
\* Further properties of the planner (PlanSpec)
\* ------------------------------------------------------------------------
\* C17: for a positive cruise speed and thrust, the burn distance the
\* planner works with is t * (t + 1) / 2 * thrust for its burn time t,
\* whether t * (t + 1) is an even integer or not.
C17_BurnDistanceIsReference ==
    (plan_pc = "loop" /\ PositiveThrust) =>
        REq(plan_locals.burn_distance,
            RMul(RDiv(RMul(plan_locals.burn_time,
                           RAdd(plan_locals.burn_time, RInt(1))),
                      RInt(2)),
                 ArgThrust))

\* ------------------------------------------------------------------------
\* Further properties of the orders (Spec)
\* ------------------------------------------------------------------------
\* C20: whenever the body of fly_cruise_cutoff or fly_break_burn runs, the
\* ship's current_flight is there: reading current_flight.break_burn or
\* current_flight.arrival never raises.
C20_FlightPresentInBody == raised # "AttributeError"

\* every command so far was a fly order that a ship took
OnlyFlyOrders == cmds = Len(orders)

\* no event of ship s is pending: nothing but an order changes s from now on
Quiet(s) == \A i \in DOMAIN events : events[i].ship # s

\* C21: after fly orders only, a ship with a positive thrust for which no
\* event is pending any more (the state it stays in as the scheduler goes
\* on without a further order) is idle, its plan cleared, with zero
\* acceleration.
C21_ComesToRest ==
    \A s \in ShipOids :
       (OnlyFlyOrders /\ ThrustInt(s) > 0 /\ Quiet(s)) =>
          /\ current_flight[s] = None
          /\ acceleration[s] = 0

\* C22: the player's flagship, made by add_flagship, is not on the fleet
\* roster nor in fleet_oids, and an order_ship with the flagship's own oid
\* shows 'not in my fleet' and calls no command: the engines, the flight
\* plans and the pending events stay as they were.
C22_FlagshipNotInFleet ==
    [][/\ PlayerSetup(Cardinality(fleet_oids)).flag[0] = PlayerShip
       /\ PlayerSetup(Cardinality(fleet_oids)).oids[0] = fleet_oids
       /\ PlayerShip \notin fleet_oids
       /\ \A i \in DOMAIN PlayerSetup(Cardinality(fleet_oids)).fleet[0] :
             PlayerSetup(Cardinality(fleet_oids)).fleet[0][i] # PlayerShip
       /\ (last'.op = "order" /\ last'.oid = PlayerShip /\ cmds' = cmds + 1) =>
             /\ last'.denied
             /\ feedback' = <<"not in my fleet", PlayerShip>>
             /\ UNCHANGED <<acceleration, current_flight, events, orders,
                            fired, added, velocity, position, tick>>]_vars

\* the player ordered the flagship to fly and was refused, while a ship of
\* the fleet was on a flight
C22_Witness ==
    /\ last.op = "order" /\ last.oid = PlayerShip /\ last.cmd = "fly"
    /\ last.denied /\ feedback = <<"not in my fleet", PlayerShip>>
    /\ orders # <<>> /\ events # <<>> /\ tick > 0

====
